---- MODULE Spec2Model ----
(***************************************************************************)
(* Session and nonce lifecycle of the authn module.                        *)
(*                                                                         *)
(*   session manager : src/unnamed/part_014  (package session)             *)
(*   session store   : src/unnamed/part_011  (package repository, GORM)    *)
(*   nonce registry  : src/unnamed/part_012  (package nonce, l.536-637)    *)
(*   wiring          : src/modules/authn/module.go                         *)
(*                                                                         *)
(* The session manager holds no lock: every operation is a sequence of     *)
(* store calls (each one atomic in the database) and reads of the wall     *)
(* clock.  Request threads are the processes of Procs; a thread's position *)
(* inside an operation is pc[p] and its private *models.Session is         *)
(* local[p].  Session time is counted in units of 24h.                     *)
(***************************************************************************)
EXTENDS Integers, Sequences, FiniteSets, TLC

VARIABLES
    now,          \* time.Now(), in units of 24h
    maxSessions,  \* SessionConfig.MaxSessions of this manager
    store,        \* the sessions table: primary key -> row
    nextId,       \* number of session ids drawn from uuid.New()
    nextTok,      \* number of refresh tokens drawn from uuid.New()
    pc,           \* per thread: where it is inside its operation
    local,        \* per thread: the operation's local variables
    last,         \* what the most recently completed operation returned
    createdAt,    \* history: created_at each id was inserted with
    writer,       \* history: the operation that last wrote each row
    pure,         \* history: only back-to-back CreateSession calls so far
    ops,          \* number of operations called so far
    terminated,   \* history: the ids InvalidateSession or an eviction ended
    refreshUntil, \* history: refresh_expires_at most recently written per id
    retired,      \* history: the refresh tokens a RefreshSession rotated out
    clock,        \* nonce registry: time.Now(), in units of the nonce TTL
    nonces,       \* InMemoryNonceValidator.nonces: value -> expiry
    mutex,        \* InMemoryNonceValidator.mutex: the holder, 0 when free
    issued,       \* number of nonce values drawn from crypto/rand
    npc,          \* per thread: where it is inside its registry call
    nloc,         \* per thread: the registry call's local variables
    nret,         \* per thread: what its last completed registry call returned
    okCount,      \* history: successful Validate calls per nonce value
    calls,        \* number of registry calls made so far
    fate,         \* history: what became of each nonce value
    kept,         \* history: the values that a Cleanup run found and left
    sched,        \* where the cleanupExpired goroutine is in its loop
    shutdown      \* the process has been told to shut down

sessionVars == <<now, maxSessions, store, nextId, nextTok, pc, local, last,
                 createdAt, writer, pure, ops, terminated, refreshUntil,
                 retired>>

nonceVars == <<clock, nonces, mutex, issued, npc, nloc, nret, okCount, calls,
               fate, kept>>

schedVars == <<sched, shutdown>>

vars == <<sessionVars, nonceVars, schedVars>>

(* What the session manager does not touch, and what the registry does not *)
offSession == <<nonceVars, schedVars>>
offNonce == <<sessionVars, schedVars>>

----------------------------------------------------------------------------
(* Bounds of the model *)

MaxTime == 3
MaxCap == 2
MaxOps == 3
MaxNonces == 1
MaxClock == 2
MaxCalls == 4
MaxWork == 4

(* SessionConfig.RefreshTTL in units of 24h.  module.go configures 7; the model
   runs the manager with a shorter refresh window so that a refresh expiry
   falls inside MaxTime. *)
RefreshTTL == 2

(* Program constants, in units of 24h *)

SessionTTL == 1
GracePeriod == 1

(* NewInMemoryNonceValidator(5 * time.Minute), the unit of the registry clock *)
NonceTTL == 1

Procs == {1, 2}
Users == {"u1", "u2"}
Ids == 1..(MaxOps + 1)

(* Subject names are interchangeable: the first session ever created belongs
   to the first subject. *)
Subjects == IF nextId = 0 THEN {"u1"} ELSE Users

(* The ids a caller can present: every id issued so far and one id that was
   never issued (all unknown ids behave alike). *)
KnownIds == {i \in Ids : i <= nextId + 1}

----------------------------------------------------------------------------
(* Rows and locals *)

ZeroSession ==
    [ID |-> 0, UserID |-> "", RefreshToken |-> 0, CreatedAt |-> 0,
     ExpiresAt |-> 0, RefreshExpiresAt |-> 0, IsActive |-> FALSE,
     UpdatedAt |-> 0]

(* seen and failed are history: the operation that wrote the row the call
   read, and whether a store write of the call has failed *)
IdleLocal ==
    [id |-> 0, sess |-> ZeroSession, victim |-> 0, prev |-> 0, t |-> 0,
     seen |-> "none", failed |-> FALSE]

NoRet == [op |-> "none", id |-> 0, res |-> "none", sess |-> ZeroSession,
          prev |-> 0]

Return(op, id, res, sess, prev) ==
    [op |-> op, id |-> id, res |-> res, sess |-> sess, prev |-> prev]

AtOrAfter(t, u) == t >= u

(* time.Time.After / Before *)
After(t, u) == t > u
Before(t, u) == t < u

----------------------------------------------------------------------------
(* The store: GormSessionRepository *)

Present(id) == id \in DOMAIN store

FindWithoutError(id) ==
    [found |-> TRUE, sess |-> IF Present(id) THEN store[id] ELSE ZeroSession]

(* db.Where("id = ?", id).First(&session): the row, or ErrRecordNotFound *)
GetSessionByID(id) ==
    IF Present(id) THEN [found |-> TRUE, sess |-> store[id]]
    ELSE [found |-> FALSE, sess |-> ZeroSession]

(* db.Create(session) *)
Insert(st, s) == [i \in DOMAIN st \cup {s.ID} |-> IF i = s.ID THEN s ELSE st[i]]

(* db.Save(session): UPDATE of every column by primary key, and an INSERT of
   the row when the UPDATE touched none. *)
Save(st, s) == [i \in DOMAIN st \cup {s.ID} |-> IF i = s.ID THEN s ELSE st[i]]

DeleteAsDeactivate(st, id) ==
    [i \in DOMAIN st |-> IF i = id THEN [st[i] EXCEPT !.IsActive = FALSE] ELSE st[i]]

(* db.Where("id = ?", id).Delete(&Session{}) *)
Delete(st, id) == [i \in DOMAIN st \ {id} |-> st[i]]

(* expires_at < now OR (is_active = false AND updated_at < now - 24h) *)
SweepMatches(s, t) ==
    \/ s.ExpiresAt < t
    \/ (~s.IsActive /\ s.UpdatedAt < t - GracePeriod)

DeleteOneExpired(st, t) ==
    LET hit == {j \in DOMAIN st : SweepMatches(st[j], t)} IN
    IF hit = {} THEN st
    ELSE [i \in DOMAIN st \ {CHOOSE j \in hit : \A k \in hit : j <= k} |-> st[i]]

DeleteExpired(st, t) ==
    [i \in {j \in DOMAIN st : ~SweepMatches(st[j], t)} |-> st[i]]

ActiveIdsOfAnyone(st, u) == {i \in DOMAIN st : st[i].IsActive}

(* user_id = ? AND is_active = true *)
ActiveIdsOf(st, u) == {i \in DOMAIN st : st[i].UserID = u /\ st[i].IsActive}

(* The rows of a query come back in an order the query does not fix. *)
Orders(S) ==
    {q \in [1..Cardinality(S) -> S] : \A i, j \in DOMAIN q : i # j => q[i] # q[j]}

----------------------------------------------------------------------------
(* CreateSession *)

RECURSIVE OldestFrom(_, _, _)
OldestFrom(sessions, k, oldest) ==
    IF k > Len(sessions) THEN oldest
    ELSE OldestFrom(sessions, k + 1,
                    IF Before(sessions[k].CreatedAt, oldest.CreatedAt)
                    THEN sessions[k] ELSE oldest)

YoungestAsOldest(sessions) ==
    CHOOSE s \in {sessions[k] : k \in DOMAIN sessions} :
        \A k \in DOMAIN sessions : s.CreatedAt >= sessions[k].CreatedAt

LeastRecentlyUpdated(sessions) ==
    CHOOSE s \in {sessions[k] : k \in DOMAIN sessions} :
        \A k \in DOMAIN sessions : s.UpdatedAt <= sessions[k].UpdatedAt

(* the loop of l.89-94 *)
OldestSession(sessions) == OldestFrom(sessions, 1, sessions[1])

NewSession(id, u, tok, t) ==
    [ID |-> id, UserID |-> u, RefreshToken |-> tok, CreatedAt |-> t,
     ExpiresAt |-> t + SessionTTL, RefreshExpiresAt |-> t + RefreshTTL,
     IsActive |-> TRUE, UpdatedAt |-> 0]

Busy == \E q \in Procs : pc[q] # "idle"

(* Threads are interchangeable: a call runs on the first idle one. *)
Free(p) == pc[p] = "idle" /\ \A q \in Procs : q < p => pc[q] # "idle"

CreateBegin(p, u) ==
    /\ Free(p)
    /\ ops < MaxOps
    /\ ops' = ops + 1
    /\ u \in Subjects
    /\ LET s == NewSession(nextId + 1, u, nextTok + 1, now) IN
       /\ nextId' = nextId + 1
       /\ nextTok' = nextTok + 1
       /\ IF maxSessions > 0
          THEN \E order \in Orders(ActiveIdsOf(store, u)) :
                 LET existing == [k \in DOMAIN order |-> store[order[k]]] IN
                 IF Len(existing) >= maxSessions
                 THEN /\ pc' = [pc EXCEPT ![p] = "c_evict"]
                      /\ local' = [local EXCEPT ![p] =
                            [IdleLocal EXCEPT !.id = s.ID, !.sess = s, !.t = now,
                                              !.victim = OldestSession(existing).ID]]
                 ELSE /\ pc' = [pc EXCEPT ![p] = "c_insert"]
                      /\ local' = [local EXCEPT ![p] =
                            [IdleLocal EXCEPT !.id = s.ID, !.sess = s, !.t = now]]
          ELSE /\ pc' = [pc EXCEPT ![p] = "c_insert"]
               /\ local' = [local EXCEPT ![p] =
                     [IdleLocal EXCEPT !.id = s.ID, !.sess = s, !.t = now]]
    /\ UNCHANGED last
    /\ pure' = (pure /\ ~Busy /\ \A i \in DOMAIN store : store[i].UserID = u)
    /\ UNCHANGED <<now, maxSessions, store, createdAt, writer>>
    /\ UNCHANGED <<terminated, refreshUntil, retired>>
    /\ UNCHANGED offSession

(* _ = sm.repository.DeleteSession(ctx, oldestSession.ID) *)
CreateEvict(p) ==
    /\ UNCHANGED ops
    /\ pc[p] = "c_evict"
    /\ store' = Delete(store, local[p].victim)
    /\ pc' = [pc EXCEPT ![p] = "c_insert"]
    /\ UNCHANGED <<now, maxSessions, nextId, nextTok, local, last, createdAt,
                   writer, pure>>
    /\ terminated' = terminated \cup {local[p].victim}
    /\ UNCHANGED <<refreshUntil, retired>>
    /\ UNCHANGED offSession

(* sm.repository.CreateSession: stamps created_at, updated_at and inserts *)
CreateInsert(p) ==
    /\ UNCHANGED ops
    /\ pc[p] = "c_insert"
    /\ LET s == [local[p].sess EXCEPT !.CreatedAt = now, !.UpdatedAt = now] IN
       /\ store' = Insert(store, s)
       /\ last' = Return("Create", s.ID, "ok", s, 0)
       /\ createdAt' = [createdAt EXCEPT ![s.ID] = now]
       /\ writer' = [writer EXCEPT ![s.ID] = "Create"]
    /\ pc' = [pc EXCEPT ![p] = "idle"]
    /\ local' = [local EXCEPT ![p] = IdleLocal]
    /\ UNCHANGED <<now, maxSessions, nextId, nextTok, pure>>
    /\ refreshUntil' = [refreshUntil EXCEPT ![local[p].id] = local[p].sess.RefreshExpiresAt]
    /\ UNCHANGED <<terminated, retired>>
    /\ UNCHANGED offSession

----------------------------------------------------------------------------
(* GetSession *)

GetSession(p, id) ==
    /\ Free(p)
    /\ ops < MaxOps
    /\ ops' = ops + 1
    /\ last' = IF GetSessionByID(id).found
                THEN Return("Get", id, "ok", GetSessionByID(id).sess, 0)
                ELSE Return("Get", id, "NotFound", ZeroSession, 0)
    /\ pure' = FALSE
    /\ UNCHANGED <<now, maxSessions, store, nextId, nextTok, pc, local,
                   createdAt, writer>>
    /\ UNCHANGED <<terminated, refreshUntil, retired>>
    /\ UNCHANGED offSession

----------------------------------------------------------------------------
(* ValidateSession *)

ValidateExpiryFirst(s, t) ==
    IF After(t, s.ExpiresAt) THEN "Expired"
    ELSE IF ~s.IsActive THEN "Inactive"
    ELSE "ok"

ValidateTrustsSweep(s, t) ==
    IF ~s.IsActive THEN "Inactive" ELSE "ok"

ValidateOutcome(s, t) ==
    IF ~s.IsActive THEN "Inactive"
    ELSE IF After(t, s.ExpiresAt) THEN "Expired"
    ELSE "ok"

ValidateSliding(p, id) ==
    /\ Free(p)
    /\ ops < MaxOps
    /\ ops' = ops + 1
    /\ pure' = FALSE
    /\ IF ~GetSessionByID(id).found
       THEN /\ last' = Return("Validate", id, "NotFound", ZeroSession, 0)
            /\ UNCHANGED <<pc, local>>
       ELSE LET s == GetSessionByID(id).sess
                out == ValidateOutcome(s, now) IN
            IF out = "Expired"
            THEN /\ pc' = [pc EXCEPT ![p] = "v_save"]
                 /\ local' = [local EXCEPT ![p] =
                       [IdleLocal EXCEPT !.id = id, !.t = now,
                                         !.sess = [s EXCEPT !.IsActive = FALSE]]]
                 /\ UNCHANGED last
            ELSE /\ last' = Return("Validate", id, out, ZeroSession, 0)
                 /\ UNCHANGED <<pc, local>>
    /\ store' = IF GetSessionByID(id).found
                    /\ ValidateOutcome(GetSessionByID(id).sess, now) = "ok"
                 THEN Save(store, [GetSessionByID(id).sess EXCEPT
                                     !.ExpiresAt = now + SessionTTL])
                 ELSE store
    /\ UNCHANGED <<now, maxSessions, nextId, nextTok, createdAt, writer>>
    /\ UNCHANGED <<terminated, refreshUntil, retired>>
    /\ UNCHANGED offSession

ValidateBegin(p, id) ==
    /\ Free(p)
    /\ ops < MaxOps
    /\ ops' = ops + 1
    /\ pure' = FALSE
    /\ IF ~GetSessionByID(id).found
       THEN /\ last' = Return("Validate", id, "NotFound", ZeroSession, 0)
            /\ UNCHANGED <<pc, local>>
       ELSE LET s == GetSessionByID(id).sess
                out == ValidateOutcome(s, now) IN
            IF out = "Expired"
            THEN /\ pc' = [pc EXCEPT ![p] = "v_save"]
                 /\ local' = [local EXCEPT ![p] =
                       [IdleLocal EXCEPT !.id = id, !.t = now,
                                         !.sess = [s EXCEPT !.IsActive = FALSE]]]
                 /\ UNCHANGED last
            ELSE /\ last' = Return("Validate", id, out, ZeroSession, 0)
                 /\ UNCHANGED <<pc, local>>
    /\ UNCHANGED <<now, maxSessions, store, nextId, nextTok, createdAt, writer>>
    /\ UNCHANGED <<terminated, refreshUntil, retired>>
    /\ UNCHANGED offSession

(* _ = sm.repository.UpdateSession(ctx, session); return "session expired" *)
ValidateSave(p) ==
    /\ UNCHANGED ops
    /\ pc[p] = "v_save"
    /\ LET s == [local[p].sess EXCEPT !.UpdatedAt = now] IN
       /\ store' = Save(store, s)
       /\ writer' = [writer EXCEPT ![s.ID] = "Validate"]
       /\ last' = Return("Validate", s.ID, "Expired", ZeroSession, 0)
    /\ pc' = [pc EXCEPT ![p] = "idle"]
    /\ local' = [local EXCEPT ![p] = IdleLocal]
    /\ UNCHANGED <<now, maxSessions, nextId, nextTok, createdAt, pure>>
    /\ UNCHANGED <<terminated, refreshUntil, retired>>
    /\ UNCHANGED offSession

----------------------------------------------------------------------------
(* InvalidateSession *)

InvalidatedExpiryOnly(s, t) == [s EXCEPT !.ExpiresAt = t]

Invalidated(s, t) == [s EXCEPT !.IsActive = FALSE, !.ExpiresAt = t]

InvalidateBegin(p, id) ==
    /\ Free(p)
    /\ ops < MaxOps
    /\ ops' = ops + 1
    /\ pure' = FALSE
    /\ IF ~GetSessionByID(id).found
       THEN /\ last' = Return("Invalidate", id, "NotFound", ZeroSession, 0)
            /\ UNCHANGED <<pc, local>>
       ELSE /\ pc' = [pc EXCEPT ![p] = "i_save"]
            /\ local' = [local EXCEPT ![p] =
                  [IdleLocal EXCEPT !.id = id, !.t = now, !.seen = writer[id],
                                    !.sess = Invalidated(GetSessionByID(id).sess, now)]]
            /\ UNCHANGED last
    /\ UNCHANGED <<now, maxSessions, store, nextId, nextTok, createdAt, writer>>
    /\ UNCHANGED <<terminated, refreshUntil, retired>>
    /\ UNCHANGED offSession

InvalidateSave(p) ==
    /\ UNCHANGED ops
    /\ pc[p] = "i_save"
    /\ LET s == [local[p].sess EXCEPT !.UpdatedAt = now] IN
       /\ store' = Save(store, s)
       /\ writer' = [writer EXCEPT ![s.ID] = "Invalidate"]
       /\ last' = Return("Invalidate", s.ID, "ok", ZeroSession, 0)
    /\ pc' = [pc EXCEPT ![p] = "idle"]
    /\ local' = [local EXCEPT ![p] = IdleLocal]
    /\ UNCHANGED <<now, maxSessions, nextId, nextTok, createdAt, pure>>
    /\ terminated' = terminated \cup {local[p].id}
    /\ UNCHANGED <<refreshUntil, retired>>
    /\ UNCHANGED offSession

----------------------------------------------------------------------------
(* RefreshSession *)

RefreshOutcomeByAccess(s, t) ==
    IF ~s.IsActive THEN "Inactive"
    ELSE IF After(t, s.ExpiresAt) THEN "Expired"
    ELSE "ok"

RefreshOutcome(s, t) ==
    IF ~s.IsActive THEN "Inactive"
    ELSE IF After(t, s.RefreshExpiresAt) THEN "Expired"
    ELSE "ok"

RefreshedNoRotation(s, t, tok) ==
    [s EXCEPT !.ExpiresAt = t + SessionTTL,
              !.RefreshExpiresAt = t + RefreshTTL]

Refreshed(s, t, tok) ==
    [s EXCEPT !.ExpiresAt = t + SessionTTL,
              !.RefreshExpiresAt = t + RefreshTTL,
              !.RefreshToken = tok]

RefreshBegin(p, id) ==
    /\ Free(p)
    /\ ops < MaxOps
    /\ ops' = ops + 1
    /\ pure' = FALSE
    /\ IF ~GetSessionByID(id).found
       THEN /\ last' = Return("Refresh", id, "NotFound", ZeroSession, 0)
            /\ UNCHANGED <<pc, local, nextTok>>
       ELSE LET s == GetSessionByID(id).sess
                out == RefreshOutcome(s, now) IN
            IF out = "ok"
            THEN /\ nextTok' = nextTok + 1
                 /\ pc' = [pc EXCEPT ![p] = "r_save"]
                 /\ local' = [local EXCEPT ![p] =
                       [IdleLocal EXCEPT !.id = id, !.t = now,
                                         !.sess = Refreshed(s, now, nextTok + 1),
                                         !.prev = s.RefreshToken]]
                 /\ UNCHANGED last
            ELSE /\ last' = Return("Refresh", id, out, ZeroSession, 0)
                 /\ UNCHANGED <<pc, local, nextTok>>
    /\ UNCHANGED <<now, maxSessions, store, nextId, createdAt, writer>>
    /\ UNCHANGED <<terminated, refreshUntil, retired>>
    /\ UNCHANGED offSession

RefreshSave(p) ==
    /\ UNCHANGED ops
    /\ pc[p] = "r_save"
    /\ LET s == [local[p].sess EXCEPT !.UpdatedAt = now] IN
       /\ store' = Save(store, s)
       /\ writer' = [writer EXCEPT ![s.ID] = "Refresh"]
       /\ last' = Return("Refresh", s.ID, "ok", s, local[p].prev)
    /\ pc' = [pc EXCEPT ![p] = "idle"]
    /\ local' = [local EXCEPT ![p] = IdleLocal]
    /\ UNCHANGED <<now, maxSessions, nextId, nextTok, createdAt, pure>>
    /\ refreshUntil' = [refreshUntil EXCEPT ![local[p].id] = local[p].sess.RefreshExpiresAt]
    /\ retired' = retired \cup {local[p].prev}
    /\ UNCHANGED terminated
    /\ UNCHANGED offSession

----------------------------------------------------------------------------
(* CleanupExpiredSessions *)

CleanupExpiredSessions(p) ==
    /\ Free(p)
    /\ ops < MaxOps
    /\ ops' = ops + 1
    /\ store' = DeleteExpired(store, now)
    /\ last' = Return("Cleanup", 0, "ok", ZeroSession, 0)
    /\ pure' = FALSE
    /\ UNCHANGED <<now, maxSessions, nextId, nextTok, pc, local, createdAt,
                   writer>>
    /\ UNCHANGED <<terminated, refreshUntil, retired>>
    /\ UNCHANGED offSession

----------------------------------------------------------------------------
(* Store writes that fail: the repository call returns an error and the table
   is left as it was. *)

Failure(op, id) == Return(op, id, "PersistenceFailure", ZeroSession, 0)

(* GetSessionsByUserID fails: return nil, fmt.Errorf("failed to get existing
   sessions: %w", err), after the two ids of l.63-64 have been drawn *)
CreateListFails(p, u) ==
    /\ Free(p)
    /\ ops < MaxOps
    /\ ops' = ops + 1
    /\ u \in Subjects
    /\ maxSessions > 0
    /\ nextId' = nextId + 1
    /\ nextTok' = nextTok + 1
    /\ last' = Failure("Create", nextId + 1)
    /\ pure' = FALSE
    /\ UNCHANGED <<now, maxSessions, store, pc, local, createdAt, writer>>
    /\ UNCHANGED <<terminated, refreshUntil, retired>>
    /\ UNCHANGED offSession

(* _ = sm.repository.DeleteSession(...): the error is dropped *)
CreateEvictFails(p) ==
    /\ pc[p] = "c_evict"
    /\ pc' = [pc EXCEPT ![p] = "c_insert"]
    /\ local' = [local EXCEPT ![p].failed = TRUE]
    /\ UNCHANGED <<now, maxSessions, store, nextId, nextTok, last, createdAt,
                   writer, pure, ops>>
    /\ UNCHANGED <<terminated, refreshUntil, retired>>
    /\ UNCHANGED offSession

(* return nil, fmt.Errorf("failed to create session: %w", err) *)
CreateInsertFails(p) ==
    /\ pc[p] = "c_insert"
    /\ last' = Failure("Create", local[p].id)
    /\ pc' = [pc EXCEPT ![p] = "idle"]
    /\ local' = [local EXCEPT ![p] = IdleLocal]
    /\ UNCHANGED <<now, maxSessions, store, nextId, nextTok, createdAt,
                   writer, pure, ops>>
    /\ UNCHANGED <<terminated, refreshUntil, retired>>
    /\ UNCHANGED offSession

(* _ = sm.repository.UpdateSession(...); return "session expired" *)
ValidateSaveFails(p) ==
    /\ pc[p] = "v_save"
    /\ last' = Return("Validate", local[p].id, "Expired", ZeroSession, 0)
    /\ pc' = [pc EXCEPT ![p] = "idle"]
    /\ local' = [local EXCEPT ![p] = IdleLocal]
    /\ UNCHANGED <<now, maxSessions, store, nextId, nextTok, createdAt,
                   writer, pure, ops>>
    /\ UNCHANGED <<terminated, refreshUntil, retired>>
    /\ UNCHANGED offSession

(* return fmt.Errorf("failed to invalidate session: %w", err) *)
InvalidateSaveFails(p) ==
    /\ pc[p] = "i_save"
    /\ last' = Failure("Invalidate", local[p].id)
    /\ pc' = [pc EXCEPT ![p] = "idle"]
    /\ local' = [local EXCEPT ![p] = IdleLocal]
    /\ UNCHANGED <<now, maxSessions, store, nextId, nextTok, createdAt,
                   writer, pure, ops>>
    /\ UNCHANGED <<terminated, refreshUntil, retired>>
    /\ UNCHANGED offSession

(* return nil, fmt.Errorf("failed to refresh session: %w", err) *)
RefreshSaveFails(p) ==
    /\ pc[p] = "r_save"
    /\ last' = Failure("Refresh", local[p].id)
    /\ pc' = [pc EXCEPT ![p] = "idle"]
    /\ local' = [local EXCEPT ![p] = IdleLocal]
    /\ UNCHANGED <<now, maxSessions, store, nextId, nextTok, createdAt,
                   writer, pure, ops>>
    /\ UNCHANGED <<terminated, refreshUntil, retired>>
    /\ UNCHANGED offSession

----------------------------------------------------------------------------
(* The wall clock *)

Tick ==
    /\ UNCHANGED ops
    /\ now < MaxTime
    /\ now' = now + 1
    /\ UNCHANGED <<maxSessions, store, nextId, nextTok, pc, local, last,
                   createdAt, writer, pure, ops>>
    /\ UNCHANGED <<terminated, refreshUntil, retired>>
    /\ UNCHANGED offSession

----------------------------------------------------------------------------
(* The nonce registry: InMemoryNonceValidator.  Every method takes the one
   mutex for its whole body (Lock, defer Unlock). *)

NThreads == {1, 2, 3}

NoLocal == [v |-> 0, expiry |-> 0, live |-> FALSE]
NoResult == [op |-> "none", v |-> 0, res |-> "none", live |-> FALSE, expiry |-> 0]

NonceInit ==
    /\ clock = 0
    /\ nonces = <<>>
    /\ mutex = 0
    /\ issued = 0
    /\ npc = [p \in NThreads |-> "idle"]
    /\ nloc = [p \in NThreads |-> NoLocal]
    /\ nret = [p \in NThreads |-> NoResult]
    /\ okCount = [v \in 1..MaxNonces |-> 0]
    /\ calls = 0
    /\ fate = [v \in 1..MaxNonces |-> "unissued"]
    /\ kept = {}

MutexAlwaysFree == TRUE

(* sync.RWMutex.Lock returns only when no one holds the mutex *)
MutexFree == mutex = 0

Lock(p, next) ==
    /\ MutexFree
    /\ mutex' = p
    /\ npc' = [npc EXCEPT ![p] = next]

Unlock(p) ==
    /\ mutex' = IF mutex = p THEN 0 ELSE mutex
    /\ npc' = [npc EXCEPT ![p] = "idle"]

LookupIgnoresRemoval(m, v) ==
    [exists |-> v \in 1..issued,
     expiry |-> IF v \in DOMAIN m THEN m[v] ELSE 0]

(* expiry, exists := v.nonces[nonce]; a missing key gives the zero time *)
Lookup(m, v) ==
    [exists |-> v \in DOMAIN m,
     expiry |-> IF v \in DOMAIN m THEN m[v] ELSE 0]

(* v.nonces[nonce] = expiry *)
Put(m, v, e) == [w \in DOMAIN m \cup {v} |-> IF w = v THEN e ELSE m[w]]

RemoveNothing(m, v) == m

RemoveUnlessExpired(m, v) ==
    IF v \in DOMAIN m /\ After(clock, m[v]) THEN m
    ELSE [w \in DOMAIN m \ {v} |-> m[w]]

(* delete(v.nonces, nonce) *)
Remove(m, v) == [w \in DOMAIN m \ {v} |-> m[w]]

KeepEverything(m, t) == m

(* the loop of Cleanup: every entry with now.After(expiry) is deleted *)
Unexpired(m, t) == [w \in {x \in DOMAIN m : ~After(t, m[x])} |-> m[w]]

(* The values a caller can present: every value issued so far, and 0 for a
   value that was never issued. *)
Presentable == 0..issued

(* Generate: 32 random bytes, then nonces[nonce] = now + ttl under the lock *)
GenerateCall(p) ==
    /\ npc[p] = "idle"
    /\ calls < MaxCalls
    /\ calls' = calls + 1
    /\ issued < MaxNonces
    /\ issued' = issued + 1
    /\ nloc' = [nloc EXCEPT ![p] = [NoLocal EXCEPT !.v = issued + 1]]
    /\ npc' = [npc EXCEPT ![p] = "g_lock"]
    /\ nret' = [nret EXCEPT ![p] = NoResult]
    /\ UNCHANGED <<clock, nonces, mutex, okCount, fate, kept>>
    /\ UNCHANGED offNonce

GenerateLock(p) ==
    /\ npc[p] = "g_lock"
    /\ Lock(p, "g_put")
    /\ UNCHANGED <<clock, nonces, issued, nloc, nret, okCount, calls, fate, kept>>
    /\ UNCHANGED offNonce

GeneratePut(p) ==
    /\ npc[p] = "g_put"
    /\ LET v == nloc[p].v IN
       /\ nonces' = Put(nonces, v, clock + NonceTTL)
       /\ fate' = [fate EXCEPT ![v] = "issued"]
       /\ nret' = [nret EXCEPT ![p] =
             [NoResult EXCEPT !.op = "Generate", !.v = v, !.res = "ok",
                              !.expiry = clock + NonceTTL]]
    /\ Unlock(p)
    /\ nloc' = [nloc EXCEPT ![p] = NoLocal]
    /\ UNCHANGED <<clock, issued, okCount, calls, kept>>
    /\ UNCHANGED offNonce

(* Validate *)
ValidateCall(p, v) ==
    /\ npc[p] = "idle"
    /\ calls < MaxCalls
    /\ calls' = calls + 1
    /\ nloc' = [nloc EXCEPT ![p] =
          [NoLocal EXCEPT !.v = v, !.live = (v \in DOMAIN nonces),
                          !.expiry = IF v \in DOMAIN nonces THEN nonces[v] ELSE 0]]
    /\ npc' = [npc EXCEPT ![p] = "v_lock"]
    /\ nret' = [nret EXCEPT ![p] = NoResult]
    /\ UNCHANGED <<clock, nonces, mutex, issued, okCount, fate, kept>>
    /\ UNCHANGED offNonce

ValidateLock(p) ==
    /\ npc[p] = "v_lock"
    /\ Lock(p, "v_read")
    /\ UNCHANGED <<clock, nonces, issued, nloc, nret, okCount, calls, fate, kept>>
    /\ UNCHANGED offNonce

Result(p, res) ==
    [op |-> "Validate", v |-> nloc[p].v, res |-> res, live |-> nloc[p].live,
     expiry |-> nloc[p].expiry]

(* expiry, exists := v.nonces[nonce]; if !exists return "invalid nonce" *)
ValidateRead(p) ==
    /\ npc[p] = "v_read"
    /\ IF Lookup(nonces, nloc[p].v).exists
       THEN /\ npc' = [npc EXCEPT ![p] = "v_delete"]
            /\ nloc' = [nloc EXCEPT ![p].expiry = Lookup(nonces, nloc[p].v).expiry]
            /\ UNCHANGED <<mutex, nret, calls>>
       ELSE /\ nret' = [nret EXCEPT ![p] = Result(p, "Invalid")]
            /\ Unlock(p)
            /\ nloc' = [nloc EXCEPT ![p] = NoLocal]
    /\ UNCHANGED <<clock, nonces, issued, okCount, calls, fate, kept>>
    /\ UNCHANGED offNonce

(* delete(v.nonces, nonce) *)
ValidateDelete(p) ==
    /\ npc[p] = "v_delete"
    /\ nonces' = Remove(nonces, nloc[p].v)
    /\ npc' = [npc EXCEPT ![p] = "v_check"]
    /\ UNCHANGED <<clock, mutex, issued, nloc, nret, okCount, calls, fate, kept>>
    /\ UNCHANGED offNonce

(* if time.Now().After(expiry) return "nonce expired"; return nil *)
ValidateCheck(p) ==
    /\ npc[p] = "v_check"
    /\ LET res == IF After(clock, nloc[p].expiry) THEN "Expired" ELSE "ok" IN
       /\ nret' = [nret EXCEPT ![p] = Result(p, res)]
       /\ okCount' = IF res = "ok"
                     THEN [okCount EXCEPT ![nloc[p].v] = @ + 1]
                     ELSE okCount
       /\ fate' = [fate EXCEPT ![nloc[p].v] =
                      IF res = "ok" THEN "consumed" ELSE "expired"]
    /\ Unlock(p)
    /\ nloc' = [nloc EXCEPT ![p] = NoLocal]
    /\ UNCHANGED <<clock, nonces, issued, calls, kept>>
    /\ UNCHANGED offNonce

(* Cleanup, called by the ticker goroutine of cleanupExpired and by anyone *)
CleanupLock(p) ==
    /\ npc[p] = "idle"
    /\ calls < MaxCalls
    /\ calls' = calls + 1
    /\ Lock(p, "k_sweep")
    /\ nret' = [nret EXCEPT ![p] = NoResult]
    /\ UNCHANGED <<clock, nonces, issued, nloc, okCount, fate, kept>>
    /\ UNCHANGED offNonce

CleanupSweep(p) ==
    /\ npc[p] = "k_sweep"
    /\ nonces' = Unexpired(nonces, clock)
    /\ fate' = [v \in 1..MaxNonces |->
                  IF v \in DOMAIN nonces /\ v \notin DOMAIN nonces'
                  THEN "swept" ELSE fate[v]]
    /\ kept' = kept \cup DOMAIN nonces'
    /\ nret' = [nret EXCEPT ![p] = [NoResult EXCEPT !.op = "Cleanup", !.res = "ok"]]
    /\ Unlock(p)
    /\ UNCHANGED <<clock, issued, nloc, okCount, calls>>
    /\ UNCHANGED offNonce

ClockTick ==
    /\ clock < MaxClock
    /\ clock' = clock + 1
    /\ UNCHANGED <<nonces, mutex, issued, npc, nloc, nret, okCount, calls, fate, kept>>
    /\ UNCHANGED offNonce

NonceNext ==
    \/ \E p \in NThreads : GenerateCall(p)
    \/ \E p \in NThreads : GenerateLock(p)
    \/ \E p \in NThreads : GeneratePut(p)
    \/ \E p \in NThreads, v \in Presentable : ValidateCall(p, v)
    \/ \E p \in NThreads : ValidateLock(p)
    \/ \E p \in NThreads : ValidateRead(p)
    \/ \E p \in NThreads : ValidateDelete(p)
    \/ \E p \in NThreads : ValidateCheck(p)
    \/ \E p \in NThreads : CleanupLock(p)
    \/ \E p \in NThreads : CleanupSweep(p)
    \/ ClockTick

----------------------------------------------------------------------------
(* The cleanup scheduler: the goroutine that NewInMemoryNonceValidator starts.
   cleanupExpired ranges over the channel of a ticker of period ttl/2 and
   calls Cleanup at every tick.  The channel is never closed and the loop
   reads nothing else, so the goroutine has no step that depends on
   shutdown. *)

TickerThread == 4

(* for range ticker.C: a tick arrives *)
TickerFire ==
    /\ sched = "wait"
    /\ sched' = "lock"
    /\ UNCHANGED <<sessionVars, nonceVars, shutdown>>

(* Cleanup: v.mutex.Lock() *)
TickerLock ==
    /\ sched = "lock"
    /\ MutexFree
    /\ mutex' = TickerThread
    /\ sched' = "sweep"
    /\ UNCHANGED <<clock, nonces, issued, npc, nloc, nret, okCount, calls,
                   fate, kept>>
    /\ UNCHANGED <<sessionVars, shutdown>>

(* Cleanup: the sweep, the deferred Unlock, and back to the channel *)
TickerSweep ==
    /\ sched = "sweep"
    /\ nonces' = Unexpired(nonces, clock)
    /\ fate' = [v \in 1..MaxNonces |->
                  IF v \in DOMAIN nonces /\ v \notin DOMAIN nonces'
                  THEN "swept" ELSE fate[v]]
    /\ kept' = kept \cup DOMAIN nonces'
    /\ mutex' = IF mutex = TickerThread THEN 0 ELSE mutex
    /\ sched' = "wait"
    /\ UNCHANGED <<clock, issued, npc, nloc, nret, okCount, calls>>
    /\ UNCHANGED <<sessionVars, shutdown>>

(* The process is told to shut down: main blocks in router.Run and installs
   no handler, and nothing carries the signal to the goroutine. *)
Shutdown ==
    /\ ~shutdown
    /\ shutdown' = TRUE
    /\ UNCHANGED <<sessionVars, nonceVars, sched>>

----------------------------------------------------------------------------

Init ==
    /\ now = 0
    /\ maxSessions \in 0..MaxCap
    /\ store = <<>>
    /\ nextId = 0
    /\ nextTok = 0
    /\ pc = [p \in Procs |-> "idle"]
    /\ local = [p \in Procs |-> IdleLocal]
    /\ last = NoRet
    /\ createdAt = [i \in Ids |-> 0]
    /\ writer = [i \in Ids |-> "none"]
    /\ pure = TRUE
    /\ ops = 0
    /\ terminated = {}
    /\ refreshUntil = [i \in Ids |-> 0]
    /\ retired = {}
    /\ NonceInit
    /\ sched = "wait"
    /\ shutdown = FALSE

SessionNext ==
    \/ \E p \in Procs, u \in Users : CreateBegin(p, u)
    \/ \E p \in Procs : CreateEvict(p)
    \/ \E p \in Procs : CreateInsert(p)
    \/ \E p \in Procs, id \in KnownIds : GetSession(p, id)
    \/ \E p \in Procs, id \in KnownIds : ValidateBegin(p, id)
    \/ \E p \in Procs : ValidateSave(p)
    \/ \E p \in Procs, id \in KnownIds : InvalidateBegin(p, id)
    \/ \E p \in Procs : InvalidateSave(p)
    \/ \E p \in Procs, id \in KnownIds : RefreshBegin(p, id)
    \/ \E p \in Procs : RefreshSave(p)
    \/ \E p \in Procs : CleanupExpiredSessions(p)
    \/ Tick

Next == SessionNext

Spec == Init /\ [][Next]_vars

NonceSpec == Init /\ [][NonceNext]_vars

(* The running process: the scheduler, the session clock, and the requests
   that create sessions, end them and issue nonces (one thread issues them).
   The ticker keeps ticking, a goroutine that can take a step takes it, and
   time passes. *)
Issuers == {1}

SchedulerNext ==
    \/ TickerFire
    \/ TickerLock
    \/ TickerSweep
    \/ Shutdown
    \/ \E p \in Issuers : GenerateCall(p)
    \/ \E p \in Issuers : GenerateLock(p)
    \/ \E p \in Issuers : GeneratePut(p)
    \/ \E p \in Procs, u \in Users : CreateBegin(p, u)
    \/ \E p \in Procs : CreateEvict(p)
    \/ \E p \in Procs : CreateInsert(p)
    \/ \E p \in Procs, id \in KnownIds : InvalidateBegin(p, id)
    \/ \E p \in Procs : InvalidateSave(p)
    \/ Tick

SchedulerSpec ==
    /\ Init
    /\ [][SchedulerNext]_vars
    /\ WF_vars(TickerFire)
    /\ WF_vars(TickerLock)
    /\ WF_vars(TickerSweep)
    /\ WF_vars(\E p \in Issuers : GenerateLock(p) \/ GeneratePut(p))
    /\ WF_vars(Tick)

(* The registry with its ticker goroutine and the registry clock: threads
   issue nonces and nobody presents them.  The ticker keeps firing, a
   goroutine that can take a step takes it, and time passes. *)
SweeperNext ==
    \/ TickerFire
    \/ TickerLock
    \/ TickerSweep
    \/ \E p \in NThreads : GenerateCall(p)
    \/ \E p \in NThreads : GenerateLock(p)
    \/ \E p \in NThreads : GeneratePut(p)
    \/ ClockTick

SweeperSpec ==
    /\ Init
    /\ [][SweeperNext]_vars
    /\ WF_vars(TickerFire)
    /\ WF_vars(TickerLock)
    /\ WF_vars(TickerSweep)
    /\ WF_vars(\E p \in NThreads : GenerateLock(p) \/ GeneratePut(p))
    /\ WF_vars(ClockTick)

(* The session manager over a store whose writes can fail *)
FaultNext ==
    \/ SessionNext
    \/ \E p \in Procs, u \in Users : CreateListFails(p, u)
    \/ \E p \in Procs : CreateEvictFails(p)
    \/ \E p \in Procs : CreateInsertFails(p)
    \/ \E p \in Procs : ValidateSaveFails(p)
    \/ \E p \in Procs : InvalidateSaveFails(p)
    \/ \E p \in Procs : RefreshSaveFails(p)

FaultSpec == Init /\ [][FaultNext]_vars

(* The manager after a first CreateSession("u1") served at time 0: one active
   session is stored, and MaxOps further calls follow. *)
FirstSession == [NewSession(1, "u1", 1, 0) EXCEPT !.CreatedAt = 0, !.UpdatedAt = 0]

WarmInit ==
    /\ now = 0
    /\ maxSessions \in 0..MaxCap
    /\ store = [i \in {1} |-> FirstSession]
    /\ nextId = 1
    /\ nextTok = 1
    /\ pc = [p \in Procs |-> "idle"]
    /\ local = [p \in Procs |-> IdleLocal]
    /\ last = Return("Create", 1, "ok", FirstSession, 0)
    /\ createdAt = [i \in Ids |-> 0]
    /\ writer = [i \in Ids |-> IF i = 1 THEN "Create" ELSE "none"]
    /\ pure = TRUE
    /\ ops = 0
    /\ terminated = {}
    /\ refreshUntil = [i \in Ids |-> IF i = 1 THEN RefreshTTL ELSE 0]
    /\ retired = {}
    /\ NonceInit
    /\ sched = "wait"
    /\ shutdown = FALSE

WarmSpec == WarmInit /\ [][SessionNext]_vars

(* The manager and the registry side by side, each serving one request at a
   time, with both clocks running and the sweeps called at any moment or
   never.  MaxWork bounds the requests the two serve together. *)
Serial == {1}

Quota == ops + calls < MaxWork

ServiceNext ==
    \/ \E p \in Serial, u \in Users : Quota /\ CreateBegin(p, u)
    \/ \E p \in Serial : CreateEvict(p)
    \/ \E p \in Serial : CreateInsert(p)
    \/ \E p \in Serial, id \in KnownIds : Quota /\ ValidateBegin(p, id)
    \/ \E p \in Serial : ValidateSave(p)
    \/ \E p \in Serial, id \in KnownIds : Quota /\ RefreshBegin(p, id)
    \/ \E p \in Serial : RefreshSave(p)
    \/ \E p \in Serial : Quota /\ CleanupExpiredSessions(p)
    \/ Tick
    \/ \E p \in Serial : Quota /\ GenerateCall(p)
    \/ \E p \in Serial : GenerateLock(p)
    \/ \E p \in Serial : GeneratePut(p)
    \/ \E p \in Serial, v \in Presentable : Quota /\ ValidateCall(p, v)
    \/ \E p \in Serial : ValidateLock(p)
    \/ \E p \in Serial : ValidateRead(p)
    \/ \E p \in Serial : ValidateDelete(p)
    \/ \E p \in Serial : ValidateCheck(p)
    \/ \E p \in Serial : Quota /\ CleanupLock(p)
    \/ \E p \in Serial : CleanupSweep(p)
    \/ ClockTick

ServiceSpec == Init /\ [][ServiceNext]_vars

----------------------------------------------------------------------------
(* Steps of the operations, as seen from a pair of states *)

Evicts(p) == pc[p] = "c_evict" /\ pc'[p] = "c_insert"
Sweeps == \E p \in Procs : CleanupExpiredSessions(p)
RefreshReturns(p) == pc[p] = "r_save" /\ pc'[p] = "idle"
Removed(i) == i \in DOMAIN store /\ i \notin DOMAIN store'

----------------------------------------------------------------------------
(* C1: of all Validate calls on one nonce value, in any interleaving with each
   other and with Cleanup, at most one returns success; and of two calls that
   were both made while the value was in the registry and that both returned
   before its expiry, exactly one returned success and the other Invalid
   (both return Invalid only when a third call on the value took it). *)
TakenByThird(p, q, v) ==
    \/ okCount[v] = 1
    \/ \E r \in NThreads \ {p, q} : npc[r] = "v_check" /\ nloc[r].v = v

C1_AtMostOnce ==
    /\ \A v \in 1..MaxNonces : okCount[v] <= 1
    /\ \A p, q \in NThreads :
          (/\ p # q
           /\ nret[p].op = "Validate" /\ nret[q].op = "Validate"
           /\ nret[p].v = nret[q].v
           /\ nret[p].live /\ nret[q].live
           /\ ~After(clock, nret[p].expiry))
              => \/ {nret[p].res, nret[q].res} = {"ok", "Invalid"}
                 \/ /\ nret[p].res = "Invalid" /\ nret[q].res = "Invalid"
                    /\ TakenByThird(p, q, nret[p].v)

C1_Witness ==
    \E p, q \in NThreads :
        /\ nret[p].op = "Validate" /\ nret[q].op = "Validate"
        /\ nret[p].v = nret[q].v /\ nret[p].live /\ nret[q].live
        /\ nret[p].res = "ok" /\ nret[q].res = "Invalid"

----------------------------------------------------------------------------
(* C2: a session row persisted with active=false is never later persisted
   with active=true. *)
C2_InactiveIsTerminal ==
    [][\A i \in Ids :
          (i \in DOMAIN store /\ ~store[i].IsActive /\ i \in DOMAIN store')
              => ~store'[i].IsActive]_vars

(* C3: of the RefreshSession calls that read one and the same refresh secret of
   a session, at most one returns success. *)
C3_OneRefreshWins ==
    [][\A p \in Procs :
          RefreshReturns(p)
              => ~(/\ last.op = "Refresh" /\ last.res = "ok"
                   /\ last.id = local[p].id
                   /\ last.prev = local[p].prev)]_vars

(* C4: after MaxSessions+1 back-to-back CreateSession calls for one subject,
   exactly MaxSessions of its sessions are active and the one no longer active
   has the earliest creation time among the first MaxSessions. *)
C4_EvictsEarliest ==
    (pure /\ ~Busy /\ maxSessions > 0 /\ nextId = maxSessions + 1)
        => /\ Cardinality(ActiveIdsOf(store, "u1")) = maxSessions
           /\ \E e \in 1..maxSessions :
                /\ ActiveIdsOf(store, "u1") = (1..nextId) \ {e}
                /\ \A j \in 1..maxSessions : createdAt[e] <= createdAt[j]

C4_Witness ==
    /\ pure /\ ~Busy /\ maxSessions = 2 /\ nextId = 3
    /\ createdAt[1] < createdAt[2]
    /\ ActiveIdsOf(store, "u1") = {2, 3}

C6_SweepHonoursGrace ==
    [][\A i \in Ids :
          (Removed(i) /\ Sweeps)
              => /\ store[i].ExpiresAt < now
                 /\ ~store[i].IsActive
                 /\ store[i].UpdatedAt < now - GracePeriod]_vars

(* C7: once ValidateSession has returned Expired for a session, every later
   read of that session's row shows active=false. *)
C7_ExpiredStaysInactive ==
    [][(/\ last.op = "Validate" /\ last.res = "Expired"
        /\ last.id \in DOMAIN store /\ ~store[last.id].IsActive
        /\ last.id \in DOMAIN store')
           => ~store'[last.id].IsActive]_vars

(* C8: a ValidateSession that reads the row InvalidateSession wrote returns
   Inactive, whether or not the clock has passed the row's access-expiry. *)
C8_InvalidatedIsInactive ==
    [][\A p \in Procs, i \in Ids :
          (ValidateBegin(p, i) /\ i \in DOMAIN store /\ writer[i] = "Invalidate")
              => (last'.op = "Validate" /\ last'.id = i
                  /\ last'.res = "Inactive")]_vars

C8_Witness ==
    /\ last.op = "Validate" /\ last.res = "Inactive"
    /\ last.id \in DOMAIN store
    /\ writer[last.id] = "Invalidate"
    /\ now > store[last.id].ExpiresAt

(* C9: every stored session has access-expiry <= refresh-expiry. *)
C9_AccessWithinRefresh ==
    \A i \in DOMAIN store : store[i].ExpiresAt <= store[i].RefreshExpiresAt

(* C10: a successful RefreshSession returns the row it persists, with the same
   id, a refresh secret that differs from the one it read and that no row
   holds any more, access-expiry = t + SessionTTL and refresh-expiry =
   t + RefreshTTL, t being the time the call read. *)
C10_RefreshRotates ==
    [][\A p \in Procs :
          RefreshReturns(p)
              => LET x == local[p].id
                     t == local[p].t IN
                 /\ last'.op = "Refresh" /\ last'.res = "ok" /\ last'.id = x
                 /\ x \in DOMAIN store' /\ store'[x] = last'.sess
                 /\ last'.sess.ID = x
                 /\ last'.sess.RefreshToken # local[p].prev
                 /\ \A j \in DOMAIN store' :
                       store'[j].RefreshToken # local[p].prev
                 /\ last'.sess.ExpiresAt = t + SessionTTL
                 /\ last'.sess.RefreshExpiresAt = t + RefreshTTL
                 /\ t <= now]_vars

C10_Witness ==
    /\ last.op = "Refresh" /\ last.res = "ok"
    /\ last.id \in DOMAIN store /\ store[last.id] = last.sess
    /\ last.sess.RefreshToken # last.prev
    /\ last.sess.CreatedAt < last.sess.UpdatedAt

----------------------------------------------------------------------------
(* C11: RefreshSession decides from the active flag and the refresh-expiry
   alone: on an active row whose refresh-expiry has not passed it goes on to
   save and returns success, also when the access-expiry has passed; on an
   inactive row it returns Inactive; on an active row whose refresh-expiry has
   passed it returns Expired. *)
C11_RefreshByRefreshExpiry ==
    [][/\ \A p \in Procs, i \in Ids :
             (RefreshBegin(p, i) /\ i \in DOMAIN store)
                 => LET s == store[i] IN
                    /\ (s.IsActive /\ ~After(now, s.RefreshExpiresAt))
                           => (pc'[p] = "r_save" /\ local'[p].id = i)
                    /\ ~s.IsActive
                           => (last'.op = "Refresh" /\ last'.res = "Inactive")
                    /\ (s.IsActive /\ After(now, s.RefreshExpiresAt))
                           => (last'.op = "Refresh" /\ last'.res = "Expired")
       /\ \A p \in Procs :
             RefreshReturns(p) => (last'.op = "Refresh" /\ last'.res = "ok")]_vars

C11_Witness ==
    \E p \in Procs :
        /\ pc[p] = "r_save"
        /\ local[p].id \in DOMAIN store
        /\ writer[local[p].id] = "Create"
        /\ After(local[p].t, store[local[p].id].ExpiresAt)
        /\ ~After(local[p].t, store[local[p].id].RefreshExpiresAt)

----------------------------------------------------------------------------
(* C16: an InvalidateSession that reads a row InvalidateSession wrote returns
   no error and leaves the stored row as the first call left it. *)
InvalidateReturns(p) == pc[p] = "i_save" /\ pc'[p] = "idle"

C16_InvalidateIdempotent ==
    [][\A p \in Procs :
          (/\ InvalidateReturns(p)
           /\ local[p].id \in DOMAIN store
           /\ local[p].seen = "Invalidate"
           /\ writer[local[p].id] = "Invalidate"
           /\ local[p].sess = Invalidated(store[local[p].id], local[p].t))
              => /\ last'.op = "Invalidate" /\ last'.res = "ok"
                 /\ store'[local[p].id] = store[local[p].id]]_vars

----------------------------------------------------------------------------
(* C17: once the process has been told to shut down, the cleanup task
   eventually stops: from some point on it takes no lock and runs no sweep. *)
C17_CleanupStops ==
    [](shutdown => <>[](sched \notin {"lock", "sweep"}))

(* C18: a session that is past its access-expiry, inactive and past the grace
   period is eventually deleted by the scheduler, with no request touching
   it. *)
PastGrace(i) ==
    /\ i \in DOMAIN store
    /\ store[i].ExpiresAt < now
    /\ ~store[i].IsActive
    /\ store[i].UpdatedAt < now - GracePeriod

C18_SchedulerSweepsSessions ==
    \A i \in Ids : PastGrace(i) ~> (i \notin DOMAIN store)

----------------------------------------------------------------------------
(* C19: a CreateSession, ValidateSession, RefreshSession or InvalidateSession
   call of which a store write has failed does not return its normal result
   (success, or Expired for ValidateSession): it returns the failure. *)
WriteFails(p) ==
    \/ CreateInsertFails(p)
    \/ ValidateSaveFails(p)
    \/ InvalidateSaveFails(p)
    \/ RefreshSaveFails(p)
    \/ (CreateInsert(p) /\ local[p].failed)

C19_StoreErrorsSurface ==
    [][\A p \in Procs :
          WriteFails(p) => last'.res = "PersistenceFailure"]_vars

----------------------------------------------------------------------------
(* C20: GetSession, ValidateSession, RefreshSession and InvalidateSession
   called with an id that has no row, whether it was never issued or its row
   has been removed, return NotFound at once and leave the store as it is. *)
Looks(p, i) ==
    \/ GetSession(p, i)
    \/ ValidateBegin(p, i)
    \/ RefreshBegin(p, i)
    \/ InvalidateBegin(p, i)

C20_AbsentIsNotFound ==
    [][\A p \in Procs, i \in Ids :
          (Looks(p, i) /\ i \notin DOMAIN store)
              => /\ last'.id = i /\ last'.res = "NotFound"
                 /\ last'.op \in {"Get", "Validate", "Refresh", "Invalidate"}
                 /\ pc'[p] = "idle"
                 /\ store' = store]_vars

C20_Witness ==
    /\ last.op = "Invalidate" /\ last.res = "NotFound"
    /\ last.id \in 1..nextId
    /\ writer[last.id] # "none"
    /\ last.id \notin DOMAIN store

----------------------------------------------------------------------------
(* Steps of the nonce registry, as seen from a pair of states *)

ValidateReturns(p) == npc[p] \in {"v_read", "v_check"} /\ npc'[p] = "idle"
CleanupReturns(p) == npc[p] = "k_sweep" /\ npc'[p] = "idle"
Gone(v) == fate[v] \in {"consumed", "expired", "swept"}

(* C12: the Validate that finds a value in the registry and reads the clock
   before the value's expiry returns success, and it is the only success for
   that value; a Validate of a value that Generate has stored and nothing has
   removed never returns Invalid; every Validate of the value after the
   successful one returns Invalid. *)
C12_ValidatesExactlyOnce ==
    [][\A p \in NThreads :
          ValidateReturns(p)
              => LET v == nloc[p].v IN
                 /\ (npc[p] = "v_check" /\ ~After(clock, nloc[p].expiry))
                        => /\ nret'[p].op = "Validate" /\ nret'[p].v = v
                           /\ nret'[p].res = "ok"
                           /\ okCount[v] = 0 /\ okCount'[v] = 1
                 /\ (v \in 1..MaxNonces /\ fate[v] = "issued")
                        => nret'[p].res # "Invalid"
                 /\ (v \in 1..MaxNonces /\ fate[v] = "consumed")
                        => (nret'[p].res = "Invalid" /\ okCount'[v] = 1)]_vars

C12_Witness ==
    \E p, q \in NThreads :
        /\ nret[p].op = "Validate" /\ nret[p].res = "ok"
        /\ nret[q].op = "Validate" /\ nret[q].res = "Invalid"
        /\ nret[p].v = nret[q].v
        /\ ~nret[q].live

(* C13: the Validate that finds a value in the registry and reads the clock
   after the value's expiry returns Expired and leaves the value out of the
   registry; from then on the value is never in the registry, never validates
   successfully, and every Validate of it returns Invalid. *)
C13_ExpiredIsConsumed ==
    [][/\ \A p \in NThreads :
             ValidateReturns(p)
                 => LET v == nloc[p].v IN
                    /\ (npc[p] = "v_check" /\ After(clock, nloc[p].expiry))
                           => /\ nret'[p].op = "Validate" /\ nret'[p].v = v
                              /\ nret'[p].res = "Expired"
                              /\ v \notin DOMAIN nonces'
                              /\ okCount'[v] = 0
                    /\ (v \in 1..MaxNonces /\ fate[v] = "expired")
                           => nret'[p].res = "Invalid"
       /\ \A v \in 1..MaxNonces :
             fate[v] = "expired"
                 => (v \notin DOMAIN nonces' /\ okCount'[v] = 0)]_vars

C13_Witness ==
    \E p, q \in NThreads :
        /\ nret[p].op = "Validate" /\ nret[p].res = "Expired"
        /\ nret[q].op = "Validate" /\ nret[q].res = "Invalid"
        /\ nret[p].v = nret[q].v
        /\ fate[nret[p].v] = "expired"

(* C14: a Cleanup run removes every entry whose expiry is before the current
   time, leaves every other entry with its value and expiry, and adds none;
   a value that Cleanup runs have left is in the registry until a Validate
   takes it, and that Validate succeeds when it reads the clock before the
   expiry. *)
C14_CleanupSweepsExpiredOnly ==
    [][/\ \A p \in NThreads :
             CleanupReturns(p)
                 => /\ DOMAIN nonces' \subseteq DOMAIN nonces
                    /\ \A v \in DOMAIN nonces :
                          IF nonces[v] < clock
                          THEN v \notin DOMAIN nonces'
                          ELSE v \in DOMAIN nonces' /\ nonces'[v] = nonces[v]
       /\ \A v \in kept :
             (fate[v] = "issued"
                  /\ ~\E p \in NThreads : npc[p] = "v_check" /\ nloc[p].v = v)
                 => v \in DOMAIN nonces
       /\ \A p \in NThreads :
             (ValidateReturns(p) /\ nloc[p].v \in kept /\ npc[p] = "v_check"
                  /\ ~After(clock, nloc[p].expiry))
                 => nret'[p].res = "ok"]_vars

C14_Witness ==
    \E v \in kept, p \in NThreads :
        /\ fate[v] = "consumed"
        /\ nret[p].op = "Validate" /\ nret[p].v = v /\ nret[p].res = "ok"

(* C15: a value that a Validate or a Cleanup has removed keeps its fate
   (consumed, expired or swept), never returns to the registry and gains no
   successful Validate; a stored value that is out of the registry stays
   out. *)
C15_NoReturnToIssued ==
    [][\A v \in 1..MaxNonces :
          /\ Gone(v)
                => /\ fate'[v] = fate[v]
                   /\ v \notin DOMAIN nonces'
                   /\ okCount'[v] = okCount[v]
          /\ (fate[v] # "unissued" /\ v \notin DOMAIN nonces)
                => v \notin DOMAIN nonces']_vars

C15_Witness ==
    \E p \in NThreads :
        /\ nret[p].op = "Validate" /\ nret[p].res = "Invalid"
        /\ nret[p].v \in 1..MaxNonces
        /\ fate[nret[p].v] = "swept"

----------------------------------------------------------------------------
(* C21: ValidateSession tells the two causes apart.  It answers "session is
   inactive" only for a session that InvalidateSession or an eviction ended,
   and it answers "session expired" on every call, the first and the later
   ones, made after the access expiry of a session that nothing ended. *)
C21_ExpiredNotInactive ==
    [][\A p \in Procs, i \in Ids :
          (ValidateBegin(p, i) /\ Present(i)) =>
             /\ (last'.op = "Validate" /\ last'.res = "Inactive" /\ pc'[p] = "idle")
                    => i \in terminated
             /\ (i \notin terminated /\ After(now, store[i].ExpiresAt))
                    => pc'[p] = "v_save"]_vars

----------------------------------------------------------------------------
(* C22: the sweeps are not needed for correctness.  In every run, with the
   nonce Cleanup and CleanupExpiredSessions called any number of times or
   never, a Validate that reads the clock after the expiry of its nonce does
   not return success, and a ValidateSession that reads a row whose access
   expiry is before the time of the call does not return success. *)
C22_SweepsAreAdvisory ==
    [][/\ \A p \in NThreads :
             (ValidateReturns(p) /\ npc[p] = "v_check"
                /\ After(clock, nloc[p].expiry))
                => nret'[p].res # "ok"
       /\ \A p \in Procs, i \in Ids :
             (ValidateBegin(p, i) /\ Present(i) /\ Before(store[i].ExpiresAt, now))
                => ~(pc'[p] = "idle" /\ last'.op = "Validate" /\ last'.res = "ok")]_vars

(* Neither sweep has removed anything, and both validations refused *)
C22_Witness ==
    /\ \E p \in NThreads :
          /\ nret[p].op = "Validate" /\ nret[p].res = "Expired"
          /\ fate[nret[p].v] = "expired"
    /\ kept = {}
    /\ last.op = "Validate" /\ last.res = "Expired"
    /\ Present(last.id) /\ writer[last.id] = "Validate"

----------------------------------------------------------------------------
(* C23: a CreateSession that read the clock at t and succeeds stores and
   returns a session under an id no stored session has, of the given subject,
   active, created at t, with access expiry t + SessionTTL and refresh expiry
   t + RefreshTTL; the GetSession that follows, with no other call in between
   or in flight, returns that record. *)
C23_CreateStoresRecord ==
    [][/\ \A p \in Procs :
             CreateInsert(p) =>
                LET s == last'.sess
                    t == local[p].t IN
                /\ last'.op = "Create" /\ last'.res = "ok"
                /\ s.ID \notin DOMAIN store
                /\ s.UserID = local[p].sess.UserID
                /\ s.IsActive
                /\ s.CreatedAt = t
                /\ s.ExpiresAt = t + SessionTTL
                /\ s.RefreshExpiresAt = t + RefreshTTL
                /\ store'[s.ID] = s
       /\ \A p \in Procs, i \in Ids :
             (GetSession(p, i) /\ ~Busy /\ last.op = "Create"
                /\ last.res = "ok" /\ last.id = i)
                => (last'.res = "ok" /\ last'.sess = last.sess)]_vars

----------------------------------------------------------------------------
(* C24: the session a CreateSession at the cap picks for eviction is an
   active session of the subject with the earliest creation time, the time its
   row was inserted with, whichever sessions were validated or refreshed in
   between and however recently. *)
C24_EvictsByCreation ==
    [][\A p \in Procs, u \in Users :
          (CreateBegin(p, u) /\ pc'[p] = "c_evict")
              => LET v == local'[p].victim
                     active == ActiveIdsOf(store, u) IN
                 /\ v \in active
                 /\ \A j \in active :
                       /\ store[j].CreatedAt = createdAt[j]
                       /\ store[v].CreatedAt <= store[j].CreatedAt]_vars

(* The victim is the session refreshed last, older than one never touched *)
C24_Witness ==
    \E p \in Procs, j \in DOMAIN store :
        /\ pc[p] = "c_evict"
        /\ local[p].victim \in DOMAIN store
        /\ LET v == local[p].victim IN
           /\ writer[v] = "Refresh" /\ writer[j] = "Create"
           /\ store[j].IsActive /\ store[j].UserID = store[v].UserID
           /\ store[v].CreatedAt < store[j].CreatedAt
           /\ store[v].UpdatedAt > store[j].UpdatedAt

----------------------------------------------------------------------------
(* C25: whatever the interleaving of concurrent CreateSession calls, once no
   call is in flight no subject has more than MaxSessions active sessions. *)
C25_CapHolds ==
    (maxSessions > 0 /\ ~Busy)
        => \A u \in Users : Cardinality(ActiveIdsOf(store, u)) <= maxSessions

----------------------------------------------------------------------------
(* C26: a ValidateSession or InvalidateSession that read a session before a
   RefreshSession wrote it, and saves after it, leaves the session inactive;
   no stored session is ever active with a refresh secret that a successful
   RefreshSession has rotated out, and the row a successful RefreshSession
   wrote stays as returned until another call writes the session. *)
StaleSave(p, i) ==
    /\ pc[p] \in {"v_save", "i_save"} /\ pc'[p] = "idle"
    /\ local[p].id = i
    /\ writer[i] = "Refresh"

C26_RefreshNotUndone ==
    [][/\ \A p \in Procs, i \in Ids :
             StaleSave(p, i) => (i \in DOMAIN store' /\ ~store'[i].IsActive)
       /\ \A i \in DOMAIN store' :
             store'[i].IsActive => store'[i].RefreshToken \notin retired'
       /\ \A i \in DOMAIN store \cap DOMAIN store' :
             (writer[i] = "Refresh" /\ writer'[i] = "Refresh"
                /\ ~\E p \in Procs : RefreshReturns(p) /\ local[p].id = i)
                => store'[i] = store[i]]_vars

(* ValidateSession read the session, RefreshSession rotated it, then the
   ValidateSession saved: the row holds the old secret and is inactive *)
C26_Witness ==
    \E i \in DOMAIN store :
        /\ ~Busy
        /\ writer[i] = "Validate"
        /\ store[i].RefreshToken \in retired
        /\ ~store[i].IsActive

----------------------------------------------------------------------------
(* C27: a session that was created, that no InvalidateSession and no eviction
   has ended, and whose refresh expiry has not passed can be refreshed:
   whatever ValidateSession calls and CleanupExpiredSessions sweeps ran after
   its access expiry, a RefreshSession on it does not return Inactive or
   NotFound. *)
C27_StaysRefreshable ==
    [][\A p \in Procs, i \in Ids :
          (/\ RefreshBegin(p, i)
           /\ writer[i] # "none"
           /\ i \notin terminated
           /\ ~After(now, refreshUntil[i]))
              => ~(/\ pc'[p] = "idle"
                   /\ last'.op = "Refresh"
                   /\ last'.res \in {"Inactive", "NotFound"})]_vars

----------------------------------------------------------------------------
(* C28: a nonce that is stored and never presented to Validate is eventually
   removed from the registry by the ticker goroutine's sweep (for every nonce
   whose expiry falls inside the modelled time), so the registry does not keep
   growing once no nonce is generated. *)
C28_UnusedNonceIsSwept ==
    \A v \in 1..MaxNonces :
        (v \in DOMAIN nonces /\ nonces[v] < MaxClock) ~> (v \notin DOMAIN nonces)

C28_Witness ==
    \E v \in 1..MaxNonces :
        /\ fate[v] = "swept"
        /\ v \notin DOMAIN nonces
        /\ okCount[v] = 0
        /\ sched = "wait"
        /\ \A p \in NThreads : nret[p].op # "Cleanup"

----------------------------------------------------------------------------
(* C29: the sweeps are idempotent and resumable.  Applied again at the same
   clock value to what a nonce Cleanup or a CleanupExpiredSessions left, the
   sweep changes nothing; and a sweep over what is left when any part of the
   entries the sweep removed is already gone ends in the same state as the
   one full sweep. *)
Without(f, P) == [x \in DOMAIN f \ P |-> f[x]]

C29_SweepsIdempotent ==
    [][/\ \A p \in NThreads :
             CleanupReturns(p)
                 => /\ Unexpired(nonces', clock) = nonces'
                    /\ \A P \in SUBSET (DOMAIN nonces \ DOMAIN nonces') :
                          Unexpired(Without(nonces, P), clock) = nonces'
       /\ Sweeps
             => /\ DeleteExpired(store', now) = store'
                /\ \A P \in SUBSET (DOMAIN store \ DOMAIN store') :
                      DeleteExpired(Without(store, P), now) = store']_vars

(* Both sweeps have run and each has removed an entry *)
C29_Witness ==
    /\ last.op = "Cleanup"
    /\ \E i \in 1..nextId :
          writer[i] # "none" /\ i \notin terminated /\ ~Present(i)
    /\ \E v \in 1..MaxNonces, p \in NThreads :
          /\ fate[v] = "swept"
          /\ nret[p].op = "Cleanup"

----------------------------------------------------------------------------
(* C30: the expiry comparisons are strict.  Generate stores a nonce with
   expiry t + NonceTTL, t being the clock at the store; the Validate that
   takes it returns success when it reads a clock <= that expiry and Expired
   when it reads a later one.  ValidateSession on an active session returns
   success when the clock equals the access expiry, and RefreshSession on an
   active session goes on to its save and succeeds when the clock equals the
   refresh expiry. *)
C30_ExpiryIsStrict ==
    [][/\ \A p \in NThreads :
             (npc[p] = "g_put" /\ npc'[p] = "idle")
                 => nonces'[nloc[p].v] = clock + NonceTTL
       /\ \A p \in NThreads :
             (ValidateReturns(p) /\ npc[p] = "v_check")
                 => /\ clock <= nloc[p].expiry => nret'[p].res = "ok"
                    /\ clock > nloc[p].expiry => nret'[p].res = "Expired"
       /\ \A p \in Procs, i \in Ids :
             (ValidateBegin(p, i) /\ Present(i) /\ store[i].IsActive
                /\ now = store[i].ExpiresAt)
                 => (pc'[p] = "idle" /\ last'.op = "Validate" /\ last'.res = "ok")
       /\ \A p \in Procs, i \in Ids :
             (RefreshBegin(p, i) /\ Present(i) /\ store[i].IsActive
                /\ now = store[i].RefreshExpiresAt)
                 => pc'[p] = "r_save"
       /\ \A p \in Procs :
             RefreshReturns(p) => last'.res = "ok"]_vars

(* A nonce validated at its expiry and a session validated at its access
   expiry, both with success *)
C30_Witness ==
    /\ \E p \in NThreads :
          /\ nret[p].op = "Validate" /\ nret[p].res = "ok"
          /\ nret[p].live /\ nret[p].expiry = clock
    /\ last.op = "Validate" /\ last.res = "ok"
    /\ Present(last.id) /\ store[last.id].ExpiresAt = now

----------------------------------------------------------------------------
(* A call that returns in the step it is made in *)
ReturnsAtOnce(op, res) ==
    /\ ops' = ops + 1
    /\ pc' = pc
    /\ last'.op = op /\ last'.res = res

(* C31: a ValidateSession that returns success, and a GetSession, leave the
   store as it was: no row is added or removed and no field of any row, the
   expiries, the refresh secret and the creation time included, changes. *)
C31_ReadsLeaveStore ==
    [][(\/ ReturnsAtOnce("Validate", "ok")
        \/ ReturnsAtOnce("Get", "ok")
        \/ ReturnsAtOnce("Get", "NotFound"))
           => store' = store]_vars

(* A session validated with success after its creation: its row is the one
   CreateSession wrote *)
C31_Witness ==
    /\ last.op = "Validate" /\ last.res = "ok"
    /\ Present(last.id)
    /\ writer[last.id] = "Create"
    /\ store[last.id].UpdatedAt = createdAt[last.id]
    /\ store[last.id].IsActive
    /\ now > createdAt[last.id]

----------------------------------------------------------------------------
(* C32: the write of InvalidateSession(X) changes, of the stored sessions,
   only X's active flag (to false) and X's access expiry (to the time the call
   read), besides the updated_at stamp of the repository: X's id, subject,
   refresh secret, refresh expiry and creation time stay as stored, no row is
   added or removed, and every other row is unchanged. *)
C32_InvalidateTouchesTwoFields ==
    [][\A p \in Procs :
          InvalidateReturns(p)
              => LET x == local[p].id IN
                 /\ DOMAIN store' = DOMAIN store
                 /\ x \in DOMAIN store
                 /\ \A j \in DOMAIN store \ {x} : store'[j] = store[j]
                 /\ store'[x] = [store[x] EXCEPT !.IsActive = FALSE,
                                                 !.ExpiresAt = local[p].t,
                                                 !.UpdatedAt = now]]_vars

----------------------------------------------------------------------------
(* C33: CreateSession for subject S changes and removes no session of another
   subject.  Its first step changes no row and picks a victim only when S
   holds MaxSessions > 0 or more active sessions, the victim being one active
   session of S; its eviction removes that one row and nothing else; its
   insert adds the new row under an unused id and changes no existing row. *)
HeldBy(u) == {i \in DOMAIN store : store[i].UserID = u /\ store[i].IsActive}

CreateStarts(p) == pc[p] = "idle" /\ pc'[p] \in {"c_evict", "c_insert"}
CreateReturns(p) == pc[p] = "c_insert" /\ pc'[p] = "idle"

C33_CreateTouchesOwnSubject ==
    [][\A p \in Procs :
          /\ CreateStarts(p)
                => LET S == local'[p].sess.UserID
                       v == local'[p].victim IN
                   /\ store' = store
                   /\ IF maxSessions > 0 /\ Cardinality(HeldBy(S)) >= maxSessions
                      THEN pc'[p] = "c_evict" /\ v \in HeldBy(S)
                      ELSE pc'[p] = "c_insert" /\ v = 0
          /\ Evicts(p)
                => /\ DOMAIN store' = DOMAIN store \ {local[p].victim}
                   /\ \A j \in DOMAIN store' : store'[j] = store[j]
                   /\ local[p].victim \in DOMAIN store
                         => store[local[p].victim].UserID = local[p].sess.UserID
          /\ CreateReturns(p)
                => /\ local[p].id \notin DOMAIN store
                   /\ DOMAIN store' = DOMAIN store \cup {local[p].id}
                   /\ \A j \in DOMAIN store : store'[j] = store[j]]_vars

(* A session of S has been evicted while another subject's session stays *)
C33_Witness ==
    \E p \in Procs, j \in DOMAIN store :
        /\ pc[p] = "c_insert"
        /\ local[p].victim \in 1..nextId
        /\ local[p].victim \notin DOMAIN store
        /\ store[j].UserID # local[p].sess.UserID
        /\ store[j].IsActive

----------------------------------------------------------------------------
(* C34: when CreateSession returns an error, because the store failed while
   listing the subject's sessions or while inserting the new record, the store
   holds no row under the new id and the subject's active sessions are those
   it had before the call: in particular a session the call picked for
   eviction is still an active session of the subject. *)
CreateFails(p) ==
    \/ CreateInsertFails(p)
    \/ \E u \in Users : CreateListFails(p, u)

C34_FailedCreateLeavesStore ==
    [][\A p \in Procs :
          CreateFails(p)
              => /\ last'.op = "Create" /\ last'.res = "PersistenceFailure"
                 /\ last'.id \notin DOMAIN store'
                 /\ (pc[p] = "c_insert" /\ local[p].victim # 0)
                       => /\ local[p].victim \in DOMAIN store'
                          /\ store'[local[p].victim].IsActive
                          /\ store'[local[p].victim].UserID
                                = local[p].sess.UserID]_vars

====
